---- MODULE Spec2Model ----
(***************************************************************************)
(* A model of gen0cide/cfx: environment-identifier and prefix validation,  *)
(* prefixed environment-variable lookup, EnvContext construction, YAML     *)
(* configuration discovery and loading, and the locked Populate query.     *)
(*                                                                         *)
(* A Go string is modelled as what it is, a sequence of bytes (0..255).    *)
(* len(v) is the length of that sequence, v[i] is a byte, and `range v`    *)
(* walks the UTF-8 decoding of it (Runes).  An error value is modelled by  *)
(* a TLA+ string naming it, NoErr standing for nil.                         *)
(***************************************************************************)
EXTENDS Integers, Sequences, FiniteSets, TLC

VARIABLES
    osenv,   \* the process environment: a function from variable names to values
    input,   \* the string handed to the validation functions
    call,    \* the completed call of a validation or lookup function, with its results
    fs,      \* the file system: the node at the configuration directory's path
    env,     \* the EnvContext handed to NewConfig
    cont,    \* the yamlContainer objects: their cfg field and their RWMutex
    newcfg,  \* what NewConfig returned, once it has
    procs,   \* the goroutines that call Populate
    pc,      \* where each goroutine is inside Populate
    req,     \* the container, key and target of each goroutine's call
    res,     \* what each goroutine's last call returned and observed
    world,   \* what the operating system answers: host, user, directories
    prefix,  \* the prefix NewEnvContext is called with
    ectx     \* what NewEnvContext returned, once it has

parseVars == <<osenv, input, call>>
cfgVars == <<fs, env, cont, newcfg, procs, pc, req, res>>
envVars == <<world, prefix, ectx>>
vars == <<osenv, input, call, fs, env, cont, newcfg, procs, pc, req, res,
          world, prefix, ectx>>

----------------------------------------------------------------------------
(* Bounds *)

\* longest "interesting" part of a generated input string
MaxCore == 2

\* most entries in the configuration directory
MaxFiles == 2

\* goroutines calling Populate concurrently
NumProcs == 2

----------------------------------------------------------------------------
(* Go strings *)

NoErr == "nil"

\* "" as a Go string
Empty == <<>>

\* strings.Join(elems, sep)
RECURSIVE Join(_, _)
Join(elems, sep) ==
    IF Len(elems) = 0 THEN Empty
    ELSE IF Len(elems) = 1 THEN elems[1]
    ELSE elems[1] \o sep \o Join(Tail(elems), sep)

IsCont(b) == 128 <= b /\ b <= 191

\* the runes `for _, c := range v` yields: the UTF-8 decoding of v, one
\* utf8.RuneError (U+FFFD) per malformed byte
RECURSIVE Runes(_)
Runes(v) ==
    IF Len(v) = 0 THEN <<>>
    ELSE LET b == v[1] IN
         IF b < 128 THEN <<b>> \o Runes(Tail(v))
         ELSE IF 194 <= b /\ b <= 223 /\ Len(v) >= 2 /\ IsCont(v[2])
              THEN <<(b - 192) * 64 + (v[2] - 128)>> \o Runes(SubSeq(v, 3, Len(v)))
         ELSE IF 224 <= b /\ b <= 239 /\ Len(v) >= 3 /\ IsCont(v[2]) /\ IsCont(v[3])
                 /\ (b - 224) * 4096 + (v[2] - 128) * 64 + (v[3] - 128) >= 2048
              THEN <<(b - 224) * 4096 + (v[2] - 128) * 64 + (v[3] - 128)>>
                       \o Runes(SubSeq(v, 4, Len(v)))
         ELSE <<65533>> \o Runes(Tail(v))   \* utf8.RuneError

----------------------------------------------------------------------------
(* env.go: constants *)

KeyEnvironment == <<69, 78, 86, 73, 82, 79, 78, 77, 69, 78, 84>>  \* "ENVIRONMENT"
KeyAppPath     == <<65, 80, 80, 95, 68, 73, 82>>                  \* "APP_DIR"
KeyConfigPath  == <<67, 79, 78, 70, 73, 71, 95, 68, 73, 82>>      \* "CONFIG_DIR"
KeyAppID       == <<65, 80, 80, 95, 73, 68>>                      \* "APP_ID"

DefaultEnvKeyPrefix == <<67, 70, 88>>                             \* "CFX"
DefaultEnvVarSeparator == <<95>>                                  \* "_"
_defaultEnv == <<100, 101, 118, 101, 108, 111, 112, 109, 101, 110, 116>>  \* "development"
_nilEnv == Empty

ErrEnvTooLong   == "environment identifier must not be longer than 64 characters"
ErrEnvTooShort  == "environment identifier must be longer than 2 characters"
ErrEnvBadChars  == "environment identifier contains invalid characters, must be only lowercase alpha numeric"
ErrPfxTooLong   == "env key prefix must not be longer than 64 characters"
ErrPfxTooShort  == "env key prefix must be longer than 2 characters"
ErrPfxUnderscore == "env key prefix cannot start or end with an underscore character"

----------------------------------------------------------------------------
(* env.go: validation *)

validEnvLetter(c) == (97 <= c /\ c <= 122) \/ (48 <= c /\ c <= 57)

validEnvKeyPrefixLetter(c) ==
    (65 <= c /\ c <= 90) \/ (48 <= c /\ c <= 57) \/ c = 95

\* ParseEnv with the lower limit the README words ("longer than 2 characters")
ParseEnv_short(v) ==
    IF v = Empty THEN [ret |-> _defaultEnv, err |-> NoErr]
    ELSE IF Len(v) > 64 THEN [ret |-> _nilEnv, err |-> ErrEnvTooLong]
    ELSE IF Len(v) <= 2 THEN [ret |-> _nilEnv, err |-> ErrEnvTooShort]
    ELSE IF \E i \in DOMAIN Runes(v) : ~validEnvLetter(Runes(v)[i])
         THEN [ret |-> _nilEnv, err |-> ErrEnvBadChars]
    ELSE [ret |-> v, err |-> NoErr]

ParseEnv(v) ==
    IF v = Empty THEN [ret |-> _defaultEnv, err |-> NoErr]
    ELSE IF Len(v) > 64 THEN [ret |-> _nilEnv, err |-> ErrEnvTooLong]
    ELSE IF Len(v) < 2 THEN [ret |-> _nilEnv, err |-> ErrEnvTooShort]
    ELSE IF \E i \in DOMAIN Runes(v) : ~validEnvLetter(Runes(v)[i])
         THEN [ret |-> _nilEnv, err |-> ErrEnvBadChars]
    ELSE [ret |-> v, err |-> NoErr]

\* ParseEnvKeyPrefix handing the rejected input back with the character error
ParseEnvKeyPrefix_echo(v) ==
    IF v = Empty THEN [ret |-> DefaultEnvKeyPrefix, err |-> NoErr]
    ELSE IF Len(v) > 64 THEN [ret |-> DefaultEnvKeyPrefix, err |-> ErrPfxTooLong]
    ELSE IF Len(v) < 2 THEN [ret |-> DefaultEnvKeyPrefix, err |-> ErrPfxTooShort]
    ELSE IF v[1] = 95 \/ v[Len(v)] = 95
         THEN [ret |-> DefaultEnvKeyPrefix, err |-> ErrPfxUnderscore]
    ELSE IF \E i \in DOMAIN Runes(v) : ~validEnvKeyPrefixLetter(Runes(v)[i])
         THEN [ret |-> v, err |-> ErrEnvBadChars]
    ELSE [ret |-> v, err |-> NoErr]

ParseEnvKeyPrefix(v) ==
    IF v = Empty THEN [ret |-> DefaultEnvKeyPrefix, err |-> NoErr]
    ELSE IF Len(v) > 64 THEN [ret |-> DefaultEnvKeyPrefix, err |-> ErrPfxTooLong]
    ELSE IF Len(v) < 2 THEN [ret |-> DefaultEnvKeyPrefix, err |-> ErrPfxTooShort]
    ELSE IF v[1] = 95 \/ v[Len(v)] = 95
         THEN [ret |-> DefaultEnvKeyPrefix, err |-> ErrPfxUnderscore]
    ELSE IF \E i \in DOMAIN Runes(v) : ~validEnvKeyPrefixLetter(Runes(v)[i])
         THEN [ret |-> DefaultEnvKeyPrefix, err |-> ErrEnvBadChars]
    ELSE [ret |-> v, err |-> NoErr]

----------------------------------------------------------------------------
(* env.go: prefixed lookup *)

\* Key without the fallback to the default prefix
Key_nodefault(e, p) == Join(<<p, e>>, <<95>>)

\* EnvVar.Key
Key(e, p) ==
    IF p = Empty THEN Join(<<DefaultEnvKeyPrefix, e>>, DefaultEnvVarSeparator)
    ELSE Join(<<p, e>>, <<95>>)

\* os.Getenv: the value of the variable, "" when it is not set
Getenv(environ, name) == IF name \in DOMAIN environ THEN environ[name] ELSE Empty

\* EnvVar.Get
Get(environ, e, p) == Getenv(environ, Key(e, p))

----------------------------------------------------------------------------
(* path/filepath and strings, as used by resolveConfig *)

\* index of the last occurrence of byte b in s, 0 if there is none
LastIndex(s, b) ==
    IF \E i \in DOMAIN s : s[i] = b
    THEN CHOOSE i \in DOMAIN s : s[i] = b /\ \A j \in DOMAIN s : s[j] = b => j <= i
    ELSE 0

\* strings.Split(s, "/") without the empty pieces
RECURSIVE Components(_)
Components(s) ==
    IF Len(s) = 0 THEN <<>>
    ELSE IF s[1] = 47 THEN Components(Tail(s))
    ELSE LET n == IF \E i \in DOMAIN s : s[i] = 47
                  THEN (CHOOSE i \in DOMAIN s : s[i] = 47 /\ \A j \in 1..(i - 1) : s[j] # 47) - 1
                  ELSE Len(s)
         IN  <<SubSeq(s, 1, n)>> \o Components(SubSeq(s, n + 1, Len(s)))

Dot == <<46>>
DotDot == <<46, 46>>

\* filepath.Clean's walk over the components: "." dropped, ".." removing the
\* component before it (kept at the front of a relative path, dropped at the
\* root)
RECURSIVE CleanWalk(_, _, _)
CleanWalk(comps, out, rooted) ==
    IF Len(comps) = 0 THEN out
    ELSE LET c == comps[1] IN
         IF c = Dot THEN CleanWalk(Tail(comps), out, rooted)
         ELSE IF c = DotDot
         THEN IF Len(out) > 0 /\ out[Len(out)] # DotDot
              THEN CleanWalk(Tail(comps), SubSeq(out, 1, Len(out) - 1), rooted)
              ELSE IF rooted THEN CleanWalk(Tail(comps), out, rooted)
              ELSE CleanWalk(Tail(comps), Append(out, c), rooted)
         ELSE CleanWalk(Tail(comps), Append(out, c), rooted)

\* filepath.Clean
Clean(path) ==
    IF Len(path) = 0 THEN Dot
    ELSE LET rooted == path[1] = 47
             body == Join(CleanWalk(Components(path), <<>>, rooted), <<47>>)
         IN  IF rooted THEN <<47>> \o body
             ELSE IF Len(body) = 0 THEN Dot ELSE body

\* filepath.Join(dir, name): the non-empty elements joined by "/" and cleaned
PathJoin(dir, name) ==
    IF Len(dir) = 0 /\ Len(name) = 0 THEN Empty
    ELSE IF Len(dir) = 0 THEN Clean(name)
    ELSE IF Len(name) = 0 THEN Clean(dir)
    ELSE Clean(dir \o <<47>> \o name)

\* filepath.Ext: the suffix starting at the last dot of the last path element
Ext(path) ==
    LET d == LastIndex(path, 46)
        sl == LastIndex(path, 47)
    IN  IF d > sl THEN SubSeq(path, d, Len(path)) ELSE Empty

\* path with its trailing slashes removed
RECURSIVE TrimSlashes(_)
TrimSlashes(path) ==
    IF Len(path) > 0 /\ path[Len(path)] = 47
    THEN TrimSlashes(SubSeq(path, 1, Len(path) - 1))
    ELSE path

\* filepath.Base
Base(path) ==
    IF Len(path) = 0 THEN Dot
    ELSE LET t == TrimSlashes(path) IN
         IF Len(t) = 0 THEN <<47>>
         ELSE SubSeq(t, LastIndex(t, 47) + 1, Len(t))

HasPrefixAt(s, old) ==
    Len(old) <= Len(s) /\ SubSeq(s, 1, Len(old)) = old

\* strings.Replace(s, old, "", -1) for a non-empty old: every non-overlapping
\* occurrence of old removed, scanning from the left
RECURSIVE RemoveAll(_, _)
RemoveAll(s, old) ==
    IF Len(s) = 0 THEN Empty
    ELSE IF HasPrefixAt(s, old) THEN RemoveAll(SubSeq(s, Len(old) + 1, Len(s)), old)
    ELSE <<s[1]>> \o RemoveAll(Tail(s), old)

\* the representative of a rune's case-folding orbit (unicode.SimpleFold):
\* ASCII and Latin-1 letters, the Kelvin sign (k) and the long s (s); the
\* generated names contain no other letters
FoldRune(r) ==
    IF 65 <= r /\ r <= 90 THEN r + 32
    ELSE IF 192 <= r /\ r <= 222 /\ r # 215 THEN r + 32
    ELSE IF r = 8490 THEN 107
    ELSE IF r = 383 THEN 115
    ELSE r

\* strings.EqualFold
EqualFold(s, t) ==
    LET rs == Runes(s)
        rt == Runes(t)
    IN  /\ Len(rs) = Len(rt)
        /\ \A i \in DOMAIN rs : FoldRune(rs[i]) = FoldRune(rt[i])

\* s < t as Go compares strings: byte by byte
RECURSIVE Less(_, _)
Less(s, t) ==
    IF Len(t) = 0 THEN FALSE
    ELSE IF Len(s) = 0 THEN TRUE
    ELSE IF s[1] # t[1] THEN s[1] < t[1]
    ELSE Less(Tail(s), Tail(t))

----------------------------------------------------------------------------
(* env.go: NewEnvContext *)

KeyServiceID        == <<83, 69, 82, 86, 73, 67, 69, 95, 73, 68>>            \* "SERVICE_ID"
KeyInstanceID       == <<73, 78, 83, 84, 65, 78, 67, 69, 95, 73, 68>>        \* "INSTANCE_ID"
KeyRegion           == <<82, 69, 71, 73, 79, 78>>                            \* "REGION"
KeyAvailabilityZone == <<65, 86, 65, 73, 76, 65, 66, 73, 76, 73, 84, 89, 95, 90, 79, 78, 69>>
KeyNetworkID        == <<78, 69, 84, 87, 79, 82, 75, 95, 73, 68>>            \* "NETWORK_ID"
KeyDatacenterID     == <<68, 65, 84, 65, 67, 69, 78, 84, 69, 82, 95, 73, 68>>  \* "DATACENTER_ID"

_defaultConfigDir == <<99, 111, 110, 102, 105, 103>>                         \* "config"

\* an error of NewEnvContext: its message, the variable and the path the
\* message names, and the message of the error it wraps
Err(msg, key, path, cause) == [msg |-> msg, key |-> key, path |-> path, cause |-> cause]
NilErr == Err("nil", Empty, Empty, "")

ErrHostname == "could not determine the systems hostname"
ErrMachineID == "could not determine the machine uuid"
ErrUser == "could not determine the current user"
ErrUserNil == "current user implementation not supported on system"
ErrNotValidEnv == "env var is not a valid environment"
ErrNoCwd == "was not set - default of current directory was not possible"
ErrNoAbs == "cannot have its absolute path resolved"
ErrNotExist == "does not exist"
ErrPermission == "too restrictive permissions"
ErrNotInterpreted == "could not be interpeted by the os"
ErrNotDir == "points to a file, not a directory"

\* what the operating system reports outside the model's choices
sHostname == <<104, 49>>                                         \* "h1"
sMachineID == <<109, 49>>                                        \* "m1"
sTimezone == <<85, 84, 67>>                                      \* "UTC"
sGOOS == <<108, 105, 110, 117, 120>>                             \* "linux"
sGOARCH == <<97, 109, 100, 54, 52>>                              \* "amd64"
sGoVersion == <<103, 111, 49>>                                   \* "go1"
sUsername == <<117, 49>>                                         \* "u1"
sUID == <<49, 48>>                                               \* "10"
sGID == <<50, 48>>                                               \* "20"
CwdPath == <<47, 119>>                                           \* "/w"

ZeroHost == [Hostname |-> Empty, UUID |-> Empty, Timezone |-> Empty]
ZeroGo == [OS |-> Empty, Arch |-> Empty, Version |-> Empty]
ZeroDeployment ==
    [AppID |-> Empty, ServiceID |-> Empty, InstanceID |-> Empty, Region |-> Empty,
     AvailabilityZone |-> Empty, NetworkID |-> Empty, DatacenterID |-> Empty]
ZeroUser == [Username |-> Empty, UID |-> Empty, GID |-> Empty]
ZeroProcess == [PID |-> 0, PPID |-> 0]

\* var ctx EnvContext
ZeroEnvContext ==
    [Environment |-> Empty, EnvPrefix |-> Empty, AppPath |-> Empty,
     ConfigPath |-> Empty, Host |-> ZeroHost, Go |-> ZeroGo,
     Deployment |-> ZeroDeployment, User |-> ZeroUser, Process |-> ZeroProcess]

\* the directories the generated APP_DIR values lead to, and those the
\* generated CONFIG_DIR values and the default lead to
sApp == <<47, 97, 112, 112>>                                     \* "/app"
sRel == <<114, 101, 108>>                                        \* "rel"
sC == <<47, 99>>                                                 \* "/c"
sConf == <<99, 111, 110, 102>>                                   \* "conf"
AppNodes == {sApp, CwdPath \o <<47>> \o sRel}
CfgNodes == {CwdPath \o <<47>> \o _defaultConfigDir, sC, CwdPath \o <<47>> \o sConf}
CfgUnderApp == {a \o <<47>> \o _defaultConfigDir : a \in AppNodes}

\* os.Stat(path) in world w: "dir", "file", or the kind of error.  The working
\* directory is a directory; nothing is found below a missing directory, and
\* a path through a regular file is an error of neither of the named kinds
OsStat(w, path) ==
    LET c == Clean(path) IN
    IF c = CwdPath THEN "dir"
    ELSE IF c \in AppNodes THEN w.appKind
    ELSE IF c \in CfgNodes THEN w.cfgKind
    ELSE IF c \in CfgUnderApp
         THEN IF w.appKind = "dir" THEN w.cfgKind
              ELSE IF w.appKind = "file" THEN "other"
              ELSE w.appKind
    ELSE "notexist"

\* filepath.IsAbs
IsAbs(path) == Len(path) > 0 /\ path[1] = 47

\* filepath.Abs: the path itself, cleaned, when absolute, else joined to the
\* working directory, which has to be known
Abs(w, path) ==
    IF IsAbs(path) THEN [path |-> Clean(path), ok |-> TRUE]
    ELSE IF w.cwd # "ok" THEN [path |-> Empty, ok |-> FALSE]
    ELSE [path |-> PathJoin(CwdPath, path), ok |-> TRUE]

\* one thing NewEnvContext asked the operating system
Ev(op, arg) == [op |-> op, arg |-> arg]

\* StatErr, were every failed os.Stat reported as the one unspecific variant
StatErr_nokind(kind, key, path) == Err(ErrNotInterpreted, key, path, "")

\* the error for a failed os.Stat of the directory named by variable key
StatErr(kind, key, path) ==
    IF kind = "notexist" THEN Err(ErrNotExist, key, path, "")
    ELSE IF kind = "perm" THEN Err(ErrPermission, key, path, "")
    ELSE Err(ErrNotInterpreted, key, path, "")

\* ResolveConfigPath, were the default taken below the working directory
\* instead of below the resolved AppPath
ResolveConfigPath_cwd(w, ctx, trace) ==
    LET c1 == IF ctx.ConfigPath = Empty
              THEN [ctx EXCEPT !.ConfigPath = PathJoin(CwdPath, _defaultConfigDir)]
              ELSE ctx
        needAbs == ~IsAbs(c1.ConfigPath)
        abs == Abs(w, c1.ConfigPath)
        t1 == IF needAbs THEN Append(trace, Ev("getwd", Empty)) ELSE trace
    IN  IF needAbs /\ ~abs.ok
        THEN [ctx |-> c1, err |-> Err(ErrNoAbs, KeyAppPath, c1.AppPath, ""), trace |-> t1]
        ELSE LET c2 == IF needAbs THEN [c1 EXCEPT !.ConfigPath = abs.path] ELSE c1
                 st == OsStat(w, c2.ConfigPath)
                 t2 == Append(t1, Ev("stat", c2.ConfigPath))
             IN  IF st \notin {"dir", "file"}
                 THEN [ctx |-> c2, err |-> StatErr(st, KeyConfigPath, c2.ConfigPath), trace |-> t2]
                 ELSE IF st # "dir"
                 THEN [ctx |-> c2, err |-> Err(ErrNotDir, KeyConfigPath, c2.ConfigPath, ""),
                       trace |-> t2]
                 ELSE [ctx |-> c2, err |-> NilErr, trace |-> t2]

\* NewEnvContext from the ConfigPath resolution on
ResolveConfigPath(w, ctx, trace) ==
    LET c1 == IF ctx.ConfigPath = Empty
              THEN [ctx EXCEPT !.ConfigPath = PathJoin(ctx.AppPath, _defaultConfigDir)]
              ELSE ctx
        needAbs == ~IsAbs(c1.ConfigPath)
        abs == Abs(w, c1.ConfigPath)
        t1 == IF needAbs THEN Append(trace, Ev("getwd", Empty)) ELSE trace
    IN  IF needAbs /\ ~abs.ok
        THEN [ctx |-> c1, err |-> Err(ErrNoAbs, KeyAppPath, c1.AppPath, ""), trace |-> t1]
        ELSE LET c2 == IF needAbs THEN [c1 EXCEPT !.ConfigPath = abs.path] ELSE c1
                 st == OsStat(w, c2.ConfigPath)
                 t2 == Append(t1, Ev("stat", c2.ConfigPath))
             IN  IF st \notin {"dir", "file"}
                 THEN [ctx |-> c2, err |-> StatErr(st, KeyConfigPath, c2.ConfigPath), trace |-> t2]
                 ELSE IF st # "dir"
                 THEN [ctx |-> c2, err |-> Err(ErrNotDir, KeyConfigPath, c2.ConfigPath, ""),
                       trace |-> t2]
                 ELSE [ctx |-> c2, err |-> NilErr, trace |-> t2]

\* NewEnvContext from the AppPath resolution on
ResolveAppPath(w, ctx, trace) ==
    LET unset == ctx.AppPath = Empty
        t0 == IF unset THEN Append(trace, Ev("getwd", Empty)) ELSE trace
    IN  IF unset /\ w.cwd # "ok"
        THEN [ctx |-> ctx, err |-> Err(ErrNoCwd, KeyAppPath, Empty, ""), trace |-> t0]
        ELSE
        LET c1 == IF unset THEN [ctx EXCEPT !.AppPath = CwdPath] ELSE ctx
            needAbs == ~IsAbs(c1.AppPath)
            abs == Abs(w, c1.AppPath)
            t1 == IF needAbs THEN Append(t0, Ev("getwd", Empty)) ELSE t0
        IN  IF needAbs /\ ~abs.ok
            THEN [ctx |-> c1, err |-> Err(ErrNoAbs, KeyAppPath, c1.AppPath, ""), trace |-> t1]
            ELSE LET c2 == IF needAbs THEN [c1 EXCEPT !.AppPath = abs.path] ELSE c1
                     st == OsStat(w, c2.AppPath)
                     t2 == Append(t1, Ev("stat", c2.AppPath))
                 IN  IF st \notin {"dir", "file"}
                     THEN [ctx |-> c2, err |-> StatErr(st, KeyAppPath, c2.AppPath), trace |-> t2]
                     ELSE IF st # "dir"
                     THEN [ctx |-> c2, err |-> Err(ErrNotDir, KeyAppPath, c2.AppPath, ""),
                           trace |-> t2]
                     ELSE ResolveConfigPath(w, c2, t2)

\* ResolveEnvironment, were a rejected ENVIRONMENT value replaced by the default
ResolveEnvironment_fallback(w, environ, envPrefix, ctx, trace) ==
    LET val == Get(environ, KeyEnvironment, envPrefix)
        t1 == Append(trace, Ev("getenv", Key(KeyEnvironment, envPrefix)))
        parsed == ParseEnv(val)
    IN  ResolveAppPath(w,
            IF val # Empty /\ parsed.err = NoErr
            THEN [ctx EXCEPT !.Environment = parsed.ret] ELSE ctx, t1)

\* NewEnvContext from the environment identifier on
ResolveEnvironment(w, environ, envPrefix, ctx, trace) ==
    LET val == Get(environ, KeyEnvironment, envPrefix)
        t1 == Append(trace, Ev("getenv", Key(KeyEnvironment, envPrefix)))
        parsed == ParseEnv(val)
    IN  IF val # Empty /\ parsed.err # NoErr
        THEN [ctx |-> ctx, err |-> Err(ErrNotValidEnv, Empty, val, parsed.err), trace |-> t1]
        ELSE ResolveAppPath(w,
                 IF val # Empty THEN [ctx EXCEPT !.Environment = parsed.ret] ELSE ctx, t1)

\* ResolveHost, were the current user looked up before the host name
ResolveHost_userfirst(w, environ, envPrefix, ctx, trace) ==
    LET t1 == Append(trace, Ev("user", Empty))
        c1 == [ctx EXCEPT !.User = [Username |-> sUsername, UID |-> sUID, GID |-> sGID]]
        t2 == Append(t1, Ev("hostname", Empty))
        c2 == [c1 EXCEPT !.Host.Hostname = sHostname]
        t3 == Append(t2, Ev("machineid", Empty))
        c3 == [c2 EXCEPT !.Host.UUID = sMachineID]
    IN  IF w.user = "err"
        THEN [ctx |-> ctx, err |-> Err(ErrUser, Empty, Empty, "os"), trace |-> t1]
        ELSE IF w.user = "nil"
        THEN [ctx |-> ctx, err |-> Err(ErrUserNil, Empty, Empty, ""), trace |-> t1]
        ELSE IF w.hostname # "ok"
        THEN [ctx |-> c1, err |-> Err(ErrHostname, Empty, Empty, "os"), trace |-> t2]
        ELSE IF w.machineid # "ok"
        THEN [ctx |-> c2, err |-> Err(ErrMachineID, Empty, Empty, "os"), trace |-> t3]
        ELSE ResolveEnvironment(w, environ, envPrefix, c3, t3)

\* NewEnvContext from the host queries on
ResolveHost(w, environ, envPrefix, ctx, trace) ==
    LET t1 == Append(trace, Ev("hostname", Empty))
        c1 == [ctx EXCEPT !.Host.Hostname = sHostname]
        t2 == Append(t1, Ev("machineid", Empty))
        c2 == [c1 EXCEPT !.Host.UUID = sMachineID]
        t3 == Append(t2, Ev("user", Empty))
        c3 == [c2 EXCEPT !.User = [Username |-> sUsername, UID |-> sUID, GID |-> sGID]]
    IN  IF w.hostname # "ok"
        THEN [ctx |-> ctx, err |-> Err(ErrHostname, Empty, Empty, "os"), trace |-> t1]
        ELSE IF w.machineid # "ok"
        THEN [ctx |-> c1, err |-> Err(ErrMachineID, Empty, Empty, "os"), trace |-> t2]
        ELSE IF w.user = "err"
        THEN [ctx |-> c2, err |-> Err(ErrUser, Empty, Empty, "os"), trace |-> t3]
        ELSE IF w.user = "nil"
        THEN [ctx |-> c2, err |-> Err(ErrUserNil, Empty, Empty, ""), trace |-> t3]
        ELSE ResolveEnvironment(w, environ, envPrefix, c3, t3)

\* the variables the composite literal reads, in the order of its fields
LiteralReads ==
    <<KeyConfigPath, KeyAppPath, KeyAppID, KeyServiceID, KeyInstanceID, KeyRegion,
      KeyAvailabilityZone, KeyNetworkID, KeyDatacenterID>>

\* NewEnvContext(prefix) with process environment environ in world w: the
\* context and the error returned, and what was asked of the operating
\* system, in order
NewEnvContext(pfx, environ, w) ==
    LET parsed == ParseEnvKeyPrefix(pfx)
        envPrefix == parsed.ret
        ctx == [Environment |-> _defaultEnv,
                EnvPrefix |-> envPrefix,
                ConfigPath |-> Get(environ, KeyConfigPath, envPrefix),
                AppPath |-> Get(environ, KeyAppPath, envPrefix),
                Host |-> [ZeroHost EXCEPT !.Timezone = sTimezone],
                Go |-> [OS |-> sGOOS, Arch |-> sGOARCH, Version |-> sGoVersion],
                Deployment |->
                    [AppID |-> Get(environ, KeyAppID, envPrefix),
                     ServiceID |-> Get(environ, KeyServiceID, envPrefix),
                     InstanceID |-> Get(environ, KeyInstanceID, envPrefix),
                     Region |-> Get(environ, KeyRegion, envPrefix),
                     AvailabilityZone |-> Get(environ, KeyAvailabilityZone, envPrefix),
                     NetworkID |-> Get(environ, KeyNetworkID, envPrefix),
                     DatacenterID |-> Get(environ, KeyDatacenterID, envPrefix)],
                Process |-> [PID |-> w.pid, PPID |-> w.ppid],
                User |-> ZeroUser]
        trace == [i \in 1..Len(LiteralReads) |->
                     Ev("getenv", Key(LiteralReads[i], envPrefix))]
    IN  IF parsed.err # NoErr
        THEN [ctx |-> ZeroEnvContext, err |-> Err(parsed.err, Empty, Empty, ""),
              trace |-> <<>>]
        ELSE ResolveHost(w, environ, envPrefix, ctx, trace)

\* NewEnvContext has not been called
NotBuilt == [called |-> FALSE, ctx |-> ZeroEnvContext, err |-> NilErr, trace |-> <<>>]

EnvUnused ==
    /\ world = [hostname |-> "ok", machineid |-> "ok", user |-> "ok", cwd |-> "ok",
                appKind |-> "dir", cfgKind |-> "dir", pid |-> 0, ppid |-> 0]
    /\ prefix = Empty
    /\ ectx = NotBuilt

sFOO == <<70, 79, 79>>                                           \* "FOO"
sProd == <<112, 114, 111, 100>>                                  \* "prod"
sQa == <<113, 97>>                                               \* "qa"

\* the prefixes NewEnvContext is called with: none, "FOO", and the invalid "_X"
EnvPrefixes == {Empty, sFOO, <<95, 88>>}

\* the values a variable is set to; Empty for a variable that is not set
EnvironmentValues == {Empty, sProd, <<80, 114>>}                 \* unset, "prod", "Pr"
AppDirValues == {Empty, sApp \o <<47>>, sRel}                    \* unset, "/app/", "rel"
ConfigDirValues == {Empty, sC, sConf}                            \* unset, "/c", "conf"

\* a process environment: the FOO_ variables as chosen, and CFX_ variables of
\* other values
Environ(e, a, c) ==
    LET set == { <<Join(<<sFOO, KeyEnvironment>>, <<95>>), e>>,
                 <<Join(<<sFOO, KeyAppPath>>, <<95>>), a>>,
                 <<Join(<<sFOO, KeyConfigPath>>, <<95>>), c>>,
                 <<Join(<<sFOO, KeyAppID>>, <<95>>), <<102>> >>,
                 <<Join(<<DefaultEnvKeyPrefix, KeyEnvironment>>, <<95>>), sQa>>,
                 <<Join(<<DefaultEnvKeyPrefix, KeyAppPath>>, <<95>>), sApp>>,
                 <<Join(<<DefaultEnvKeyPrefix, KeyRegion>>, <<95>>), <<114>> >> }
        names == {x[1] : x \in {y \in set : y[2] # Empty}}
    IN  [n \in names |-> (CHOOSE x \in set : x[1] = n)[2]]

StatKinds == {"dir", "file", "notexist", "perm", "other"}

\* the answers of the operating system: which of the host and user queries
\* fail, whether the working directory is known, and what is at the paths
Worlds ==
    {[hostname |-> h[1], machineid |-> h[2], user |-> h[3], cwd |-> cwd,
      appKind |-> ak, cfgKind |-> ck, pid |-> 100, ppid |-> 1] :
        h \in {<<"ok", "ok", "ok">>, <<"err", "ok", "ok">>, <<"ok", "err", "ok">>,
               <<"ok", "ok", "err">>, <<"ok", "ok", "nil">>, <<"err", "ok", "err">>},
        cwd \in {"ok", "err"}, ak \in StatKinds, ck \in StatKinds}

----------------------------------------------------------------------------
(* The configuration directory *)

sBase == <<98, 97, 115, 101>>                                   \* "base"
sDev == <<100, 101, 118>>                                       \* "dev"
extYaml == <<46, 121, 97, 109, 108>>                            \* ".yaml"
extYml == <<46, 121, 109, 108>>                                 \* ".yml"
extYML == <<46, 89, 77, 76>>                                    \* ".YML"
extYamlMixed == <<46, 89, 97, 109, 108>>                        \* ".Yaml"

\* the path of the configuration directory: "/c"
ConfigDirPath == <<47, 99>>

File(name, doc) == [name |-> name, isDir |-> FALSE, doc |-> doc]
Dir(name) == [name |-> name, isDir |-> TRUE, doc |-> "none"]

\* the entries a generated directory is made of; doc names the file's content
Candidates ==
    { File(sBase \o extYaml, "base"),
      File(<<66, 97, 115, 101>> \o extYML, "base"),             \* Base.YML
      File(<<66, 65, 83, 69>> \o extYml, "base"),               \* BASE.yml
      File(sBase \o extYamlMixed, "base"),                      \* base.Yaml
      File(sBase \o extYaml \o extYaml, "alt"),                 \* base.yaml.yaml
      File(sBase \o extYml, "malformed"),                       \* base.yml
      Dir(sBase \o extYml),                                     \* base.yml/
      File(sDev \o extYaml, "dev"),                             \* dev.yaml
      File(sDev \o extYML, "dev"),                              \* dev.YML
      File(sDev \o extYml, "malformed"),                        \* dev.yml
      File(_defaultEnv \o extYml, "dev") }                      \* development.yml

\* the directories of at most n entries, no two entries sharing a name
Directories(n) ==
    {d \in SUBSET Candidates :
        /\ Cardinality(d) <= n
        /\ \A x, y \in d : x.name = y.name => x = y}

\* the nodes the configuration path can lead to.  stat is what os.Stat finds:
\* a directory, a regular file, nothing, no permission, or another failure;
\* listable tells whether ioutil.ReadDir succeeds on the directory
FsNodes(n) ==
    {[stat |-> "dir", listable |-> TRUE, entries |-> d] : d \in Directories(n)}
    \cup {[stat |-> st, listable |-> FALSE, entries |-> {}] :
             st \in {"dir", "file", "notexist", "perm", "other"}}

\* os.Stat(path)
Stat(node, path) == IF Clean(path) = ConfigDirPath THEN node.stat ELSE "notexist"

\* the entries sorted by file name, as ioutil.ReadDir returns them
RECURSIVE SortByName(_)
SortByName(d) ==
    IF d = {} THEN <<>>
    ELSE LET x == CHOOSE x \in d : \A y \in d : y = x \/ Less(x.name, y.name)
         IN  <<x>> \o SortByName(d \ {x})

----------------------------------------------------------------------------
(* config: locating the files *)

_defaultConfigName == sBase

ErrNoConfigsLoaded == "no configuration files were loaded into the container"
ErrConfigNotFound == "could not find any valid config files"
ErrDirNotExist == "config directory did not exist"
ErrDirNotReadable == "config directory is not readable"
ErrDirNotLocated == "config directory could not be located"
ErrDirIsFile == "config directory is a file, not a directory"
ErrDirList == "could not list config directory"
ErrConstructYAML == "error constructing yaml configuration"
ErrNilProvider == "yaml config constructor returned nil provider"

yamlExts == {extYaml, extYml}

\* the loop of resolveConfig over the listed entries
RECURSIVE ScanFiles(_, _, _)
ScanFiles(files, configDir, name) ==
    IF Len(files) = 0 THEN [path |-> Empty, err |-> ErrConfigNotFound]
    ELSE LET x == files[1]
             fileext == Ext(x.name)
             basename == RemoveAll(Base(x.name), fileext)
         IN  IF x.isDir THEN ScanFiles(Tail(files), configDir, name)
             ELSE IF fileext \notin yamlExts THEN ScanFiles(Tail(files), configDir, name)
             ELSE IF EqualFold(basename, name)
                  THEN [path |-> PathJoin(configDir, x.name), err |-> NoErr]
             ELSE ScanFiles(Tail(files), configDir, name)

resolveConfig(node, configDir, name) ==
    LET st == Stat(node, configDir) IN
    IF st = "notexist" THEN [path |-> Empty, err |-> ErrDirNotExist]
    ELSE IF st = "perm" THEN [path |-> Empty, err |-> ErrDirNotReadable]
    ELSE IF st = "other" THEN [path |-> Empty, err |-> ErrDirNotLocated]
    ELSE IF st # "dir" THEN [path |-> Empty, err |-> ErrDirIsFile]
    ELSE IF ~node.listable THEN [path |-> Empty, err |-> ErrDirList]
    ELSE ScanFiles(SortByName(node.entries), configDir, name)

----------------------------------------------------------------------------
(* go.uber.org/config: YAML documents, their merge and their query *)

Scalar(n) == [kind |-> "scalar", val |-> n, m |-> <<>>]
Mapping(f) == [kind |-> "map", val |-> 0, m |-> f]
Missing == [kind |-> "missing", val |-> 0, m |-> <<>>]

\* base.yaml: {a: {x: 1, y: 2}, s: {name: 5}}
DocBase ==
    Mapping([a |-> Mapping([x |-> Scalar(1), y |-> Scalar(2)]),
             s |-> Mapping([name |-> Scalar(5)])])

\* dev.yaml: {a: {y: 3, z: 4}, p: 8080}
DocDev ==
    Mapping([a |-> Mapping([y |-> Scalar(3), z |-> Scalar(4)]),
             p |-> Scalar(8080)])

\* another document: {a: {x: 9}}
DocAlt == Mapping([a |-> Mapping([x |-> Scalar(9)])])

\* the parsed content of a file; Missing stands for a file that does not parse
DocOf(id) ==
    IF id = "base" THEN DocBase
    ELSE IF id = "dev" THEN DocDev
    ELSE IF id = "alt" THEN DocAlt
    ELSE Missing

\* the deep merge: mappings merge key by key, anything else is replaced by
\* the later layer
RECURSIVE Merge(_, _)
Merge(into, from) ==
    IF into.kind = "map" /\ from.kind = "map"
    THEN Mapping([k \in DOMAIN into.m \cup DOMAIN from.m |->
                    IF k \in DOMAIN into.m /\ k \in DOMAIN from.m
                    THEN Merge(into.m[k], from.m[k])
                    ELSE IF k \in DOMAIN from.m THEN from.m[k] ELSE into.m[k]])
    ELSE from

\* the file at a path: the directory's entry of that name
EntriesAt(node, path) ==
    {x \in node.entries : ~x.isDir /\ PathJoin(ConfigDirPath, x.name) = Clean(path)}

\* config.NewYAML(config.File(files[1]), ...): the files read and parsed in
\* order, each merged over the ones before it
RECURSIVE MergeFiles(_, _, _)
MergeFiles(node, files, acc) ==
    IF Len(files) = 0 THEN [doc |-> acc, err |-> NoErr]
    ELSE IF EntriesAt(node, files[1]) = {} THEN [doc |-> Missing, err |-> ErrConstructYAML]
    ELSE LET x == CHOOSE x \in EntriesAt(node, files[1]) : TRUE
         IN  IF DocOf(x.doc) = Missing THEN [doc |-> Missing, err |-> ErrConstructYAML]
             ELSE MergeFiles(node, Tail(files), Merge(acc, DocOf(x.doc)))

NewYAML(node, files) == MergeFiles(node, files, Mapping(<<>>))

\* provider.Get(key): the subtree at the dotted key
RECURSIVE ProviderGet(_, _)
ProviderGet(doc, key) ==
    IF Len(key) = 0 THEN doc
    ELSE IF doc.kind = "map" /\ key[1] \in DOMAIN doc.m
         THEN ProviderGet(doc.m[key[1]], Tail(key))
    ELSE Missing

ErrPopulateFailed == "cannot unmarshal into target"

\* Value.Populate(target): a missing subtree leaves the target as it was, a
\* subtree of the target's kind fills it, any other is a decoding error
ValuePopulate(val, target) ==
    IF val.kind = "missing" THEN [err |-> NoErr, out |-> Missing]
    ELSE IF val.kind = target THEN [err |-> NoErr, out |-> val]
    ELSE [err |-> ErrPopulateFailed, out |-> Missing]

----------------------------------------------------------------------------
(* config: NewConfig and the container *)

\* a nil *config.YAML
Nil == [doc |-> Missing, set |-> FALSE]
Provider(doc) == [doc |-> doc, set |-> TRUE]

\* an unlocked sync.RWMutex: no writer (0), no readers
FreeMutex == [writer |-> 0, readers |-> {}]

\* &yamlContainer{}
ZeroContainer == [cfg |-> Nil, mu |-> FreeMutex]

\* EnvID.Name: the identifier as a string
Name(e) == e

\* NewConfig handing the environment file to the provider before the base file
NewConfig_envfirst(node, e) ==
    LET basecfg == resolveConfig(node, e.ConfigPath, _defaultConfigName)
        envcfg == resolveConfig(node, e.ConfigPath, Name(e.Environment))
        files == <<envcfg.path>> \o
                 (IF basecfg.path # Empty THEN <<basecfg.path>> ELSE <<>>)
        y == NewYAML(node, files)
    IN  IF basecfg.err # NoErr /\ basecfg.err # ErrConfigNotFound
        THEN [ret |-> ZeroContainer, err |-> basecfg.err, files |-> <<>>]
        ELSE IF envcfg.err # NoErr
        THEN [ret |-> ZeroContainer, err |-> envcfg.err, files |-> <<>>]
        ELSE IF y.err # NoErr
        THEN [ret |-> ZeroContainer, err |-> ErrConstructYAML, files |-> files]
        ELSE [ret |-> [cfg |-> Provider(y.doc), mu |-> FreeMutex],
              err |-> NoErr, files |-> files]

\* NewConfig treating a missing base file as an error
NewConfig_basefatal(node, e) ==
    LET basecfg == resolveConfig(node, e.ConfigPath, _defaultConfigName)
        envcfg == resolveConfig(node, e.ConfigPath, Name(e.Environment))
        files == <<basecfg.path, envcfg.path>>
        y == NewYAML(node, files)
    IN  IF basecfg.err # NoErr
        THEN [ret |-> ZeroContainer, err |-> basecfg.err, files |-> <<>>]
        ELSE IF envcfg.err # NoErr
        THEN [ret |-> ZeroContainer, err |-> envcfg.err, files |-> <<>>]
        ELSE IF y.err # NoErr
        THEN [ret |-> ZeroContainer, err |-> ErrConstructYAML, files |-> files]
        ELSE [ret |-> [cfg |-> Provider(y.doc), mu |-> FreeMutex],
              err |-> NoErr, files |-> files]

\* NewConfig storing the provider only in a copy of the container
NewConfig_nostore(node, e) ==
    LET basecfg == resolveConfig(node, e.ConfigPath, _defaultConfigName)
        envcfg == resolveConfig(node, e.ConfigPath, Name(e.Environment))
        files == (IF basecfg.path # Empty THEN <<basecfg.path>> ELSE <<>>)
                 \o <<envcfg.path>>
        y == NewYAML(node, files)
    IN  IF basecfg.err # NoErr /\ basecfg.err # ErrConfigNotFound
        THEN [ret |-> ZeroContainer, err |-> basecfg.err, files |-> <<>>]
        ELSE IF envcfg.err # NoErr
        THEN [ret |-> ZeroContainer, err |-> envcfg.err, files |-> <<>>]
        ELSE IF y.err # NoErr
        THEN [ret |-> ZeroContainer, err |-> ErrConstructYAML, files |-> files]
        ELSE [ret |-> ZeroContainer, err |-> NoErr, files |-> files]

\* NewConfig(env): the container and the error it returns, and the files it
\* handed to config.NewYAML in order.  ret.Lock() and ret.Unlock() around the
\* store act on a container no other goroutine has yet, and leave it unlocked.
NewConfig(node, e) ==
    LET basecfg == resolveConfig(node, e.ConfigPath, _defaultConfigName)
        envcfg == resolveConfig(node, e.ConfigPath, Name(e.Environment))
        files == (IF basecfg.path # Empty THEN <<basecfg.path>> ELSE <<>>)
                 \o <<envcfg.path>>
        y == NewYAML(node, files)
    IN  IF basecfg.err # NoErr /\ basecfg.err # ErrConfigNotFound
        THEN [ret |-> ZeroContainer, err |-> basecfg.err, files |-> <<>>]
        ELSE IF envcfg.err # NoErr
        THEN [ret |-> ZeroContainer, err |-> envcfg.err, files |-> <<>>]
        ELSE IF y.err # NoErr
        THEN [ret |-> ZeroContainer, err |-> ErrConstructYAML, files |-> files]
        ELSE IF ~Provider(y.doc).set
        THEN [ret |-> ZeroContainer, err |-> ErrNilProvider, files |-> files]
        ELSE [ret |-> [cfg |-> Provider(y.doc), mu |-> FreeMutex],
              err |-> NoErr, files |-> files]

\* the containers a goroutine can hold: one it made itself, never loaded
\* ("zero"), and the one NewConfig returned ("new")
Containers == {"zero", "new"}

NotCalled == [called |-> FALSE, err |-> NoErr, files |-> <<>>]
NoReq == [c |-> "zero", key |-> <<>>, target |-> "map"]
NoRes == [returned |-> FALSE, err |-> NoErr, out |-> Missing, seen |-> Nil]

\* the keys and targets Populate is called with: a mapping, a key of the
\* base file only, an absent key, a dotted key of a scalar; a struct target
\* and an integer target
Keys == {<<"a">>, <<"s">>, <<"q">>, <<"a", "y">>}
Targets == {"map", "scalar"}

NewConfigCall ==
    /\ ~newcfg.called
    /\ LET r == NewConfig(fs, env) IN
         /\ newcfg' = [called |-> TRUE, err |-> r.err, files |-> r.files]
         /\ cont' = [cont EXCEPT !["new"] = r.ret]
    /\ UNCHANGED <<parseVars, fs, env, procs, pc, req, res, envVars>>

\* a goroutine calls Populate(key, target) on a container it holds, one of cs
PopulateCall(p, cs, keys) ==
    /\ pc[p] \in {"idle", "done"}
    /\ \E c \in cs, key \in keys, target \in Targets :
         /\ c = "new" => newcfg.called
         /\ req' = [req EXCEPT ![p] = [c |-> c, key |-> key, target |-> target]]
    /\ res' = [res EXCEPT ![p] = NoRes]
    /\ pc' = [pc EXCEPT ![p] = "lock"]
    /\ UNCHANGED <<parseVars, fs, env, cont, newcfg, procs, envVars>>

\* y.Lock(): granted when nobody holds the mutex
PopulateLock(p) ==
    /\ pc[p] = "lock"
    /\ cont[req[p].c].mu = FreeMutex
    /\ cont' = [cont EXCEPT ![req[p].c].mu.writer = p]
    /\ pc' = [pc EXCEPT ![p] = "locked"]
    /\ UNCHANGED <<parseVars, fs, env, newcfg, procs, req, res, envVars>>

\* if y.cfg == nil { return ErrNoConfigsLoaded }
PopulateNoConfig(p) ==
    /\ pc[p] = "locked"
    /\ ~cont[req[p].c].cfg.set
    /\ res' = [res EXCEPT ![p] = [returned |-> FALSE, err |-> ErrNoConfigsLoaded,
                                  out |-> Missing, seen |-> cont[req[p].c].cfg]]
    /\ pc' = [pc EXCEPT ![p] = "unlock"]
    /\ UNCHANGED <<parseVars, fs, env, cont, newcfg, procs, req, envVars>>

\* return y.cfg.Get(key).Populate(target)
PopulateGet(p) ==
    /\ pc[p] = "locked"
    /\ cont[req[p].c].cfg.set
    /\ LET r == ValuePopulate(ProviderGet(cont[req[p].c].cfg.doc, req[p].key),
                              req[p].target)
       IN  res' = [res EXCEPT ![p] = [returned |-> FALSE, err |-> r.err,
                                      out |-> r.out, seen |-> cont[req[p].c].cfg]]
    /\ pc' = [pc EXCEPT ![p] = "unlock"]
    /\ UNCHANGED <<parseVars, fs, env, cont, newcfg, procs, req, envVars>>

\* a return path that leaves the mutex locked
PopulateUnlock_keep(p) ==
    /\ pc[p] = "unlock"
    /\ res' = [res EXCEPT ![p].returned = TRUE]
    /\ pc' = [pc EXCEPT ![p] = "done"]
    /\ UNCHANGED <<parseVars, fs, env, cont, newcfg, procs, req, envVars>>

\* defer y.Unlock(), and the return to the caller
PopulateUnlock(p) ==
    /\ pc[p] = "unlock"
    /\ cont' = [cont EXCEPT ![req[p].c].mu.writer = 0]
    /\ res' = [res EXCEPT ![p].returned = TRUE]
    /\ pc' = [pc EXCEPT ![p] = "done"]
    /\ UNCHANGED <<parseVars, fs, env, newcfg, procs, req, envVars>>

\* the EnvContext values NewConfig is given: the configuration directory, as
\* a clean path or with a trailing slash, and a valid environment identifier
ConfigEnvs ==
    { [ConfigPath |-> ConfigDirPath, Environment |-> sDev],
      [ConfigPath |-> ConfigDirPath \o <<47>>, Environment |-> sDev],
      [ConfigPath |-> ConfigDirPath, Environment |-> _defaultEnv] }

NoCall == [op |-> "none", e |-> Empty, p |-> Empty, ret |-> Empty,
           err |-> NoErr, reads |-> {}]

ParseUnused ==
    /\ input = Empty
    /\ osenv = [n \in {} |-> Empty]
    /\ call = NoCall

CfgUnused ==
    /\ fs = [stat |-> "notexist", listable |-> FALSE, entries |-> {}]
    /\ env = [ConfigPath |-> Empty, Environment |-> Empty]
    /\ cont = [c \in Containers |-> ZeroContainer]
    /\ newcfg = NotCalled
    /\ procs = {}
    /\ pc = <<>>
    /\ req = <<>>
    /\ res = <<>>

InitContainers(ps) ==
    /\ cont = [c \in Containers |-> ZeroContainer]
    /\ newcfg = NotCalled
    /\ procs = ps
    /\ pc = [p \in ps |-> "idle"]
    /\ req = [p \in ps |-> NoReq]
    /\ res = [p \in ps |-> NoRes]

\* every generated directory and environment, one goroutine
InitCfg ==
    /\ ParseUnused
    /\ EnvUnused
    /\ fs \in FsNodes(MaxFiles)
    /\ env \in ConfigEnvs
    /\ InitContainers({1})

NextCfg ==
    \/ NewConfigCall
    \/ \E p \in procs : PopulateCall(p, Containers, Keys)
    \/ \E p \in procs : PopulateLock(p)
    \/ \E p \in procs : PopulateNoConfig(p)
    \/ \E p \in procs : PopulateGet(p)
    \/ \E p \in procs : PopulateUnlock(p)

SpecCfg == InitCfg /\ [][NextCfg]_vars

\* the directories of the concurrent runs: base.yaml with dev.yaml, dev.yaml
\* alone, and an empty directory
PopDirs ==
    { {File(sBase \o extYaml, "base"), File(sDev \o extYaml, "dev")},
      {File(sDev \o extYaml, "dev")},
      {} }

InitPop ==
    /\ ParseUnused
    /\ EnvUnused
    /\ fs \in {[stat |-> "dir", listable |-> TRUE, entries |-> d] : d \in PopDirs}
    /\ env = [ConfigPath |-> ConfigDirPath, Environment |-> sDev]
    /\ InitContainers(1..NumProcs)

\* the goroutines share the container NewConfig returned
NextPop ==
    \/ NewConfigCall
    \/ \E p \in procs : PopulateCall(p, {"new"}, {<<"a">>})
    \/ \E p \in procs : PopulateLock(p)
    \/ \E p \in procs : PopulateNoConfig(p)
    \/ \E p \in procs : PopulateGet(p)
    \/ \E p \in procs : PopulateUnlock(p)

SpecPop == InitPop /\ [][NextPop]_vars

\* resolveConfig applied to every generated directory
InitResolve ==
    /\ ParseUnused
    /\ EnvUnused
    /\ fs \in FsNodes(MaxFiles)
    /\ env \in ConfigEnvs
    /\ InitContainers({})

ResolveConfigCall ==
    /\ call.op = "none"
    /\ \E name \in {_defaultConfigName, Name(env.Environment)} :
         LET r == resolveConfig(fs, env.ConfigPath, name) IN
         call' = [NoCall EXCEPT !.op = "resolveConfig", !.e = name,
                                !.ret = r.path, !.err = r.err]
    /\ UNCHANGED <<osenv, input, cfgVars, envVars>>

SpecResolve == InitResolve /\ [][ResolveConfigCall]_vars

\* NewEnvContext in every generated environment and world
InitEnv ==
    /\ input = Empty
    /\ call = NoCall
    /\ CfgUnused
    /\ osenv \in {Environ(e, a, c) : e \in EnvironmentValues, a \in AppDirValues,
                                     c \in ConfigDirValues}
    /\ world \in Worlds
    /\ prefix \in EnvPrefixes
    /\ ectx = NotBuilt

NewEnvContextCall ==
    /\ ~ectx.called
    /\ LET r == NewEnvContext(prefix, osenv, world) IN
         ectx' = [called |-> TRUE, ctx |-> r.ctx, err |-> r.err, trace |-> r.trace]
    /\ UNCHANGED <<parseVars, cfgVars, world, prefix>>

NextEnv == NewEnvContextCall

SpecEnv == InitEnv /\ [][NextEnv]_vars

\* sync.Mutex hands the lock to a goroutine that keeps waiting for it
\* (starvation mode), and a running goroutine keeps running
FairSpecPop ==
    /\ SpecPop
    /\ \A p \in 1..NumProcs :
         /\ SF_vars(PopulateLock(p))
         /\ WF_vars(PopulateNoConfig(p) \/ PopulateGet(p) \/ PopulateUnlock(p))

----------------------------------------------------------------------------
(* The validation and lookup functions applied to generated inputs *)

\* bytes the generated strings are made of: the ends of the accepted ranges,
\* their neighbours, and the two bytes of a non-ASCII letter
\*   a z 0 9 A Z _ - ` { / : @ [ and 0xC3 0xA9
ParseBytes == {97, 122, 48, 57, 65, 90, 95, 45, 96, 123, 47, 58, 64, 91, 195, 169}

RECURSIVE Strings(_, _)
Strings(S, n) ==
    IF n = 0 THEN {Empty}
    ELSE Strings(S, n - 1) \cup
         {s \o <<b>> : s \in {t \in Strings(S, n - 1) : Len(t) = n - 1}, b \in S}

Repeat(b, n) == [i \in 1..n |-> b]

\* core followed by as many fill bytes as make the string n bytes long
Pad(core, b, n) ==
    IF Len(core) >= n THEN core ELSE core \o Repeat(b, n - Len(core))

\* the generated strings: every short string, and every short string padded
\* with a valid (or invalid) byte to a length around the limit of 64
ParseInputs ==
    {Pad(core, b, n) : core \in Strings(ParseBytes, MaxCore),
                       b \in {97, 65}, n \in {0, 63, 64, 65}}

EnvVars == {KeyEnvironment, KeyAppPath, KeyConfigPath, KeyAppID}

\* "s" + name
ValueOf(name) == <<115>> \o name

\* the environments a lookup under prefix p is tried in: nothing set, only the
\* default-prefixed variables set, and also the p-prefixed ones set
OsEnvsFor(p) ==
    IF ParseEnvKeyPrefix(p).err # NoErr THEN { [n \in {} |-> Empty] } ELSE
    LET cfx == {Join(<<DefaultEnvKeyPrefix, e>>, <<95>>) : e \in EnvVars}
        own == {Join(<<p, e>>, <<95>>) : e \in EnvVars}
    IN  { [n \in {} |-> Empty],
          [n \in cfx |-> ValueOf(n)],
          [n \in cfx \cup own |-> ValueOf(n)] }

InitParse ==
    /\ input \in ParseInputs
    /\ osenv \in OsEnvsFor(input)
    /\ call = NoCall
    /\ CfgUnused
    /\ EnvUnused

CallParseEnv ==
    /\ call.op = "none"
    /\ call' = [NoCall EXCEPT !.op = "ParseEnv",
                              !.ret = ParseEnv(input).ret, !.err = ParseEnv(input).err]
    /\ UNCHANGED <<osenv, input, cfgVars, envVars>>

CallParseEnvKeyPrefix ==
    /\ call.op = "none"
    /\ call' = [NoCall EXCEPT !.op = "ParseEnvKeyPrefix",
                              !.ret = ParseEnvKeyPrefix(input).ret,
                              !.err = ParseEnvKeyPrefix(input).err]
    /\ UNCHANGED <<osenv, input, cfgVars, envVars>>

\* EnvVar(e).Get(p) for the prefix p that input validates to, or for p = "" itself
CallGet ==
    /\ call.op = "none"
    /\ ParseEnvKeyPrefix(input).err = NoErr
    /\ \E e \in EnvVars, p \in {input, ParseEnvKeyPrefix(input).ret} :
          call' = [NoCall EXCEPT !.op = "Get", !.e = e, !.p = p,
                                 !.ret = Get(osenv, e, p),
                                 !.reads = {Key(e, p)}]
    /\ UNCHANGED <<osenv, input, cfgVars, envVars>>

NextParse == CallParseEnv \/ CallParseEnvKeyPrefix \/ CallGet

SpecParse == InitParse /\ [][NextParse]_vars

----------------------------------------------------------------------------
(* Claims about the validation and lookup functions *)

LowerAlnum == (97..122) \cup (48..57)
UpperAlnumUnderscore == (65..90) \cup (48..57) \cup {95}

C1_WitnessShort ==
    /\ call.op = "ParseEnv" /\ Len(input) = 2
    /\ call.err = NoErr /\ call.ret = input

C3_GetReadsPrefixedVariable ==
    call.op = "Get" =>
        LET name == (IF call.p = Empty THEN <<67, 70, 88>> ELSE call.p)
                        \o <<95>> \o call.e
        IN  /\ call.reads = {name}
            /\ call.ret = (IF name \in DOMAIN osenv THEN osenv[name] ELSE Empty)
            /\ call.err = NoErr

\* a lookup under a prefix other than the default found that prefix's value
\* while the default-prefixed variable was set to something else
C3_Witness ==
    /\ call.op = "Get" /\ call.p # Empty /\ call.p # DefaultEnvKeyPrefix
    /\ Key(call.e, DefaultEnvKeyPrefix) \in DOMAIN osenv
    /\ call.ret = ValueOf(call.p \o <<95>> \o call.e)

\* a lookup with the empty prefix, and a lookup of an unset variable
C3_WitnessEmptyPrefix ==
    /\ call.op = "Get" /\ call.p = Empty /\ call.ret # Empty

C3_WitnessUnset ==
    /\ call.op = "Get" /\ call.p # Empty /\ osenv = [n \in {} |-> Empty]
    /\ call.ret = Empty

----------------------------------------------------------------------------
(* Claims about locating and loading the configuration *)

\* the ASCII lower-case form of a name
ToLower(s) == [i \in DOMAIN s |-> IF 65 <= s[i] /\ s[i] <= 90 THEN s[i] + 32 ELSE s[i]]

\* the directory holds exactly one entry, a regular file named like
\* base.yaml or base.yml in some mix of upper and lower case
OnlyBaseVariant ==
    /\ fs.stat = "dir" /\ fs.listable
    /\ \E x \in fs.entries :
         /\ fs.entries = {x} /\ ~x.isDir
         /\ ToLower(x.name) \in {sBase \o extYaml, sBase \o extYml}

\* C4: resolveConfig is case-insensitive on the base name and on the
\* extension: in a directory holding only a case variation of base.yaml or
\* base.yml, looking up "base" returns that file's path, not ErrConfigNotFound.
C4_CaseInsensitiveNameAndExt ==
    (call.op = "resolveConfig" /\ call.e = sBase /\ OnlyBaseVariant) =>
        /\ call.err = NoErr
        /\ \E x \in fs.entries : call.ret = ConfigDirPath \o <<47>> \o x.name

\* what does hold: the base name is compared ignoring case, the extension is
\* not (it has to be .yaml or .yml as written)
C4_CaseInsensitiveNameOnly ==
    (call.op = "resolveConfig" /\ call.e = sBase /\ OnlyBaseVariant) =>
        \E x \in fs.entries :
            IF Ext(x.name) \in {extYaml, extYml}
            THEN call.err = NoErr /\ call.ret = ConfigDirPath \o <<47>> \o x.name
            ELSE call.err = ErrConfigNotFound /\ call.ret = Empty

\* BASE.yml alone was found under the name "base"
C4_WitnessNameFolded ==
    /\ call.op = "resolveConfig" /\ call.e = sBase /\ OnlyBaseVariant
    /\ call.err = NoErr /\ call.ret # ConfigDirPath \o <<47>> \o sBase \o extYml
    /\ call.ret # ConfigDirPath \o <<47>> \o sBase \o extYaml

\* the lookups NewConfig makes
BaseLookup == resolveConfig(fs, env.ConfigPath, sBase)
EnvLookup == resolveConfig(fs, env.ConfigPath, env.Environment)

\* the parsed content of the file at a path of the configuration directory
ContentAt(path) ==
    LET xs == {x \in fs.entries : ~x.isDir /\ ConfigDirPath \o <<47>> \o x.name = path}
    IN  IF xs = {} THEN Missing ELSE DocOf((CHOOSE x \in xs : TRUE).doc)

\* C5: NewConfig proceeds without a base file when the base lookup says
\* ErrConfigNotFound (that alone is no error), returns any other error of the
\* base lookup, and returns an error whenever no file for the environment
\* identifier exists, whether or not a base file was found.
C5_BaseOptionalEnvRequired ==
    newcfg.called =>
        /\ (BaseLookup.err \notin {NoErr, ErrConfigNotFound}
               => newcfg.err = BaseLookup.err)
        /\ (BaseLookup.err = ErrConfigNotFound /\ EnvLookup.err = NoErr
               => /\ newcfg.files = <<EnvLookup.path>>
                  /\ newcfg.err = (IF ContentAt(EnvLookup.path) = Missing
                                   THEN ErrConstructYAML ELSE NoErr))
        /\ (BaseLookup.err \in {NoErr, ErrConfigNotFound}
            /\ EnvLookup.err = ErrConfigNotFound
               => newcfg.err = ErrConfigNotFound /\ ~cont["new"].cfg.set)

\* a load without a base file succeeded
C5_Witness ==
    /\ newcfg.called /\ BaseLookup.err = ErrConfigNotFound
    /\ newcfg.err = NoErr /\ cont["new"].cfg.set

\* a load with a base file and without an environment file failed
C5_WitnessEnvMissing ==
    /\ newcfg.called /\ BaseLookup.err = NoErr
    /\ newcfg.err = ErrConfigNotFound

\* a load failed with an error of the base lookup other than ErrConfigNotFound
C5_WitnessBaseError ==
    /\ newcfg.called /\ newcfg.err = ErrDirNotReadable

\* the leaves of a document: <<path, value>> for every scalar
RECURSIVE Leaves(_)
Leaves(doc) ==
    IF doc.kind = "map"
    THEN UNION {{<<(<<k>> \o l[1]), l[2]>> : l \in Leaves(doc.m[k])} : k \in DOMAIN doc.m}
    ELSE IF doc.kind = "scalar" THEN {<<(<<>>), doc.val>>}
    ELSE {}

LeafPaths(doc) == {l[1] : l \in Leaves(doc)}

\* the override of base by over, leaf by leaf
Overridden(base, over) ==
    Leaves(over) \cup {l \in Leaves(base) : l[1] \notin LeafPaths(over)}

\* C6: NewConfig hands the merge at most two files, the base file (when
\* found) first and the environment file last, so that environment keys
\* override base keys recursively and keys only in base survive: base
\* {a: {x:1, y:2}} under environment {a: {y:3, z:4}} gives a = {x:1, y:3, z:4};
\* merging the same files again changes nothing.
C6_BaseThenEnvironment ==
    (newcfg.called /\ newcfg.err = NoErr) =>
        LET doc == cont["new"].cfg.doc
            n == Len(newcfg.files)
            basedoc == IF n = 2 THEN ContentAt(newcfg.files[1]) ELSE Mapping(<<>>)
            envdoc == ContentAt(newcfg.files[n])
        IN  /\ n \in {1, 2}
            /\ newcfg.files[n] = EnvLookup.path
            /\ (n = 2) = (BaseLookup.err = NoErr)
            /\ (n = 2) => newcfg.files[1] = BaseLookup.path
            /\ Leaves(doc) = Overridden(basedoc, envdoc)
            /\ (basedoc = DocBase /\ envdoc = DocDev) =>
                 ProviderGet(doc, <<"a">>) =
                     Mapping([x |-> Scalar(1), y |-> Scalar(3), z |-> Scalar(4)])
            /\ NewYAML(fs, newcfg.files \o newcfg.files).doc = doc

\* base.yaml and dev.yaml were merged into a = {x:1, y:3, z:4}
C6_Witness ==
    /\ newcfg.called /\ newcfg.err = NoErr /\ Len(newcfg.files) = 2
    /\ ContentAt(newcfg.files[1]) = DocBase /\ ContentAt(newcfg.files[2]) = DocDev
    /\ Leaves(ProviderGet(cont["new"].cfg.doc, <<"a">>)) =
           {<<(<<"x">>), 1>>, <<(<<"y">>), 3>>, <<(<<"z">>), 4>>}

\* the container of goroutine p's call never completed a successful load
NeverLoaded(p) == req[p].c = "zero" \/ newcfg.err # NoErr

\* C7: Populate on a container that never completed a successful load (the
\* zero value, or the one NewConfig returned with an error) returns
\* ErrNoConfigsLoaded and touches nothing else; on a container NewConfig
\* returned with a nil error it never returns ErrNoConfigsLoaded.
C7_NoConfigsLoaded ==
    \A p \in procs :
        res[p].returned =>
            /\ (res[p].err = ErrNoConfigsLoaded) = NeverLoaded(p)
            /\ NeverLoaded(p) =>
                 /\ res[p].out = Missing
                 /\ cont[req[p].c] = ZeroContainer

\* Populate returned ErrNoConfigsLoaded on the container of a failed NewConfig
C7_Witness ==
    \E p \in procs :
        /\ res[p].returned /\ req[p].c = "new" /\ newcfg.err # NoErr
        /\ res[p].err = ErrNoConfigsLoaded

\* Populate returned something else on a loaded container
C7_WitnessLoaded ==
    \E p \in procs :
        /\ res[p].returned /\ req[p].c = "new" /\ newcfg.err = NoErr
        /\ res[p].err = NoErr /\ res[p].out # Missing

----------------------------------------------------------------------------
(* Claims about concurrent Populate calls *)

\* goroutine p is between y.Lock() and y.Unlock()
InSection(p) == pc[p] \in {"locked", "unlock"}

\* what a returned call on the loaded container has to show: no
\* ErrNoConfigsLoaded, the document NewConfig stored, and the subtree at the
\* key when the target is of its kind
ReturnedRight(p) ==
    LET want == ProviderGet(cont["new"].cfg.doc, req[p].key) IN
    /\ res[p].err # ErrNoConfigsLoaded
    /\ res[p].seen = cont["new"].cfg
    /\ res[p].seen = Provider(NewYAML(fs, newcfg.files).doc)
    /\ want.kind = req[p].target => res[p].err = NoErr /\ res[p].out = want

\* C8: after a successful load, Populate calls issued concurrently on the same
\* container all return (the lock is released on every return path), all
\* succeed and all observe the same merged document: the document reference is
\* written once, by NewConfig, and never changed by Populate.
C8_ConcurrentPopulate ==
    /\ [](\A p \in 1..NumProcs :
            (res[p].returned /\ newcfg.err = NoErr) => ReturnedRight(p))
    /\ [][newcfg.called => cont'["new"].cfg = cont["new"].cfg]_vars
    /\ \A p \in 1..NumProcs : (pc[p] = "lock") ~> (pc[p] = "done")

\* two goroutines, both past y.Lock() at some point while the other was
\* calling, have returned the same subtree of the same document
C8_Witness ==
    \E p, q \in procs :
        /\ p # q /\ newcfg.err = NoErr
        /\ res[p].returned /\ res[q].returned
        /\ res[p].err = NoErr /\ res[q].err = NoErr
        /\ res[p].out # Missing /\ res[p].out = res[q].out
        /\ res[p].seen = res[q].seen

\* C9: Populate acquires only the read side of the container's lock, so that
\* Populate calls can be inside the locked section together and one Populate
\* never blocks another.
C9_PopulateSharesLock ==
    \A p \in procs :
        /\ InSection(p) =>
             /\ cont[req[p].c].mu.writer # p
             /\ p \in cont[req[p].c].mu.readers
        /\ pc[p] = "lock" =>
             ~\E q \in procs : q # p /\ InSection(q) /\ req[q].c = req[p].c

\* what the code does instead: Populate holds the write side, alone
C9_PopulateExcludes ==
    \A p, q \in procs :
        /\ InSection(p) => cont[req[p].c].mu = [writer |-> p, readers |-> {}]
        /\ (InSection(p) /\ InSection(q) /\ req[p].c = req[q].c) => p = q

\* a Populate call waits for the lock another Populate call holds
C9_WitnessBlocked ==
    \E p, q \in procs :
        /\ p # q /\ pc[p] = "lock" /\ InSection(q) /\ req[q].c = req[p].c
        /\ ~ENABLED PopulateLock(p)

----------------------------------------------------------------------------
(* Claims about NewEnvContext *)

\* C10: NewEnvContext is all-or-nothing: whenever it returns an error, the
\* EnvContext returned with it is the zero value, no field populated.
C10_AllOrNothing ==
    (ectx.called /\ ectx.err # NilErr) => ectx.ctx = ZeroEnvContext

\* what the code does: only a rejected prefix comes with the zero value; every
\* later failure returns the context as populated so far
C10_PartialContext ==
    (ectx.called /\ ectx.err # NilErr) =>
        IF ParseEnvKeyPrefix(prefix).err # NoErr
        THEN ectx.ctx = ZeroEnvContext
        ELSE /\ ectx.ctx.EnvPrefix # Empty
             /\ ectx.ctx.Go.OS = sGOOS
             /\ ectx.ctx.Process.PID = world.pid

\* a failed construction that got as far as the ConfigPath check returned the
\* host, the user and the resolved AppPath
C10_WitnessPartial ==
    /\ ectx.called /\ ectx.err # NilErr /\ ectx.err.key = KeyConfigPath
    /\ ectx.ctx.Host.Hostname = sHostname /\ ectx.ctx.User.Username = sUsername
    /\ IsAbs(ectx.ctx.AppPath)

\* the steps before the path resolution all pass: the prefix is accepted, the
\* host and the user are known, and the ENVIRONMENT value, if any, is valid
PathsReached ==
    /\ ectx.called
    /\ ParseEnvKeyPrefix(prefix).err = NoErr
    /\ world.hostname = "ok" /\ world.machineid = "ok" /\ world.user = "ok"
    /\ LET val == Get(osenv, KeyEnvironment, ParseEnvKeyPrefix(prefix).ret) IN
         val = Empty \/ ParseEnv(val).err = NoErr

\* the values of APP_DIR and CONFIG_DIR under the prefix of the call
AppDirSet == Get(osenv, KeyAppPath, ParseEnvKeyPrefix(prefix).ret)
ConfigDirSet == Get(osenv, KeyConfigPath, ParseEnvKeyPrefix(prefix).ret)

\* the error the claim expects for what os.Stat finds at a path, if any
ExpectedPathErr(kind, key, path) ==
    IF kind = "notexist" THEN Err(ErrNotExist, key, path, "")
    ELSE IF kind = "perm" THEN Err(ErrPermission, key, path, "")
    ELSE Err(ErrNotDir, key, path, "")

\* C11: whenever NewEnvContext returns no error, AppPath and ConfigPath are
\* absolute and named a directory when checked, a relative APP_DIR or
\* CONFIG_DIR having been joined to the working directory; and a path that
\* does not exist, is not permitted or is a regular file makes the call fail
\* with the error of that cause and of that variable, carrying that path.
C11_PathsAbsoluteAndChecked ==
    /\ (ectx.called /\ ectx.err = NilErr) =>
          /\ IsAbs(ectx.ctx.AppPath) /\ IsAbs(ectx.ctx.ConfigPath)
          /\ OsStat(world, ectx.ctx.AppPath) = "dir"
          /\ OsStat(world, ectx.ctx.ConfigPath) = "dir"
          /\ (AppDirSet # Empty /\ ~IsAbs(AppDirSet)) =>
                ectx.ctx.AppPath = CwdPath \o <<47>> \o AppDirSet
          /\ (ConfigDirSet # Empty /\ ~IsAbs(ConfigDirSet)) =>
                ectx.ctx.ConfigPath = CwdPath \o <<47>> \o ConfigDirSet
    /\ PathsReached =>
          /\ \A k \in {"notexist", "perm", "file"} :
                (IsAbs(ectx.ctx.AppPath) /\ OsStat(world, ectx.ctx.AppPath) = k) =>
                    ectx.err = ExpectedPathErr(k, KeyAppPath, ectx.ctx.AppPath)
          /\ \A k \in {"notexist", "perm", "file"} :
                (/\ IsAbs(ectx.ctx.AppPath) /\ OsStat(world, ectx.ctx.AppPath) = "dir"
                 /\ IsAbs(ectx.ctx.ConfigPath)
                 /\ OsStat(world, ectx.ctx.ConfigPath) = k) =>
                    ectx.err = ExpectedPathErr(k, KeyConfigPath, ectx.ctx.ConfigPath)

\* a relative CONFIG_DIR was joined to the working directory, named a regular
\* file there, and the call failed with the CONFIG_DIR error carrying the path
C11_Witness ==
    /\ PathsReached /\ ConfigDirSet = sConf
    /\ ectx.err = Err(ErrNotDir, KeyConfigPath, CwdPath \o <<47>> \o sConf, "")

\* a call succeeded with both directories given by relative values
C11_WitnessRelativeOk ==
    /\ ectx.called /\ ectx.err = NilErr
    /\ AppDirSet = sRel /\ ConfigDirSet = sConf
    /\ ectx.ctx.AppPath = CwdPath \o <<47>> \o sRel

\* the call got as far as checking ConfigPath: it succeeded, or it failed
\* with an error naming CONFIG_DIR
ConfigPathChecked ==
    ectx.called /\ (ectx.err = NilErr \/ ectx.err.key = KeyConfigPath)

\* C12: when APP_DIR is unset AppPath is the working directory; when
\* CONFIG_DIR is unset ConfigPath is the resolved, absolute AppPath joined
\* with "config", also when AppPath came from a relative APP_DIR; when
\* CONFIG_DIR is set it replaces that default and is resolved without regard
\* to AppPath.
C12_PathDefaults ==
    ConfigPathChecked =>
        /\ AppDirSet = Empty => ectx.ctx.AppPath = CwdPath
        /\ ConfigDirSet = Empty =>
              /\ IsAbs(ectx.ctx.AppPath)
              /\ ectx.ctx.ConfigPath =
                    TrimSlashes(ectx.ctx.AppPath) \o <<47>> \o <<99, 111, 110, 102, 105, 103>>
              /\ AppDirSet = sRel =>
                    ectx.ctx.ConfigPath = CwdPath \o <<47>> \o sRel \o <<47>>
                                            \o <<99, 111, 110, 102, 105, 103>>
        /\ ConfigDirSet # Empty =>
              ectx.ctx.ConfigPath =
                  IF IsAbs(ConfigDirSet) THEN ConfigDirSet
                  ELSE CwdPath \o <<47>> \o ConfigDirSet

\* a call succeeded with a relative APP_DIR and no CONFIG_DIR: ConfigPath is
\* "config" below the absolute AppPath
C12_Witness ==
    /\ ectx.called /\ ectx.err = NilErr
    /\ AppDirSet = sRel /\ ConfigDirSet = Empty
    /\ ectx.ctx.ConfigPath = CwdPath \o <<47>> \o sRel \o <<47>> \o _defaultConfigDir

\* a call succeeded with neither variable set
C12_WitnessBothUnset ==
    /\ ectx.called /\ ectx.err = NilErr
    /\ AppDirSet = Empty /\ ConfigDirSet = Empty
    /\ ectx.ctx.AppPath = CwdPath

\* a call succeeded with a relative APP_DIR and an absolute CONFIG_DIR
C12_WitnessConfigSet ==
    /\ ectx.called /\ ectx.err = NilErr
    /\ AppDirSet = sRel /\ ConfigDirSet = sC /\ ectx.ctx.ConfigPath = sC

\* the value of ENVIRONMENT under the prefix of the call
EnvironmentSet == Get(osenv, KeyEnvironment, ParseEnvKeyPrefix(prefix).ret)

\* 2 to 64 characters, each of a-z0-9
WellFormedEnvironment(x) ==
    /\ Len(x) >= 2 /\ Len(x) <= 64
    /\ \A i \in 1..Len(x) : x[i] \in LowerAlnum

\* C13: whenever NewEnvContext returns no error, Environment is "development"
\* if the prefixed ENVIRONMENT variable is unset or empty and otherwise is
\* that variable's value, 2 to 64 characters of a-z0-9; a non-empty value
\* that ParseEnv rejects always makes the call fail, and is never replaced by
\* the default.
C13_EnvironmentResolved ==
    /\ (ectx.called /\ ectx.err = NilErr) =>
          IF EnvironmentSet = Empty
          THEN ectx.ctx.Environment = <<100, 101, 118, 101, 108, 111, 112, 109, 101, 110, 116>>
          ELSE /\ ectx.ctx.Environment = EnvironmentSet
               /\ WellFormedEnvironment(EnvironmentSet)
    /\ (/\ ectx.called /\ EnvironmentSet # Empty
        /\ ~WellFormedEnvironment(EnvironmentSet)) =>
          ectx.err # NilErr

\* a call failed on the ENVIRONMENT value "Pr", everything before it and both
\* directories being in order
C13_Witness ==
    /\ ectx.called
    /\ EnvironmentSet = <<80, 114>>
    /\ ectx.err.msg = ErrNotValidEnv /\ ectx.err.path = <<80, 114>>
    /\ world.cwd = "ok" /\ world.appKind = "dir" /\ world.cfgKind = "dir"

\* a call succeeded with ENVIRONMENT set to "prod"
C13_WitnessSet ==
    ectx.called /\ ectx.err = NilErr /\ ectx.ctx.Environment = sProd

\* a call succeeded with ENVIRONMENT unset under its prefix while the
\* variable of another prefix is set
C13_WitnessUnset ==
    /\ ectx.called /\ ectx.err = NilErr /\ prefix = sFOO /\ EnvironmentSet = Empty
    /\ ectx.ctx.Environment = _defaultEnv

----------------------------------------------------------------------------
(* Claims about the length rule as the README words it *)

\* C14: as the README and the error text of ParseEnv state the rule, an
\* identifier must be longer than 2 and shorter than 64 characters: ParseEnv
\* rejects every identifier of length 2 or less and every identifier of
\* length 64 or more.
C14_StrictLengthLimits ==
    (/\ call.op = "ParseEnv" /\ input # Empty
     /\ (Len(input) <= 2 \/ Len(input) >= 64)) =>
        call.err # NoErr

\* what the code does: both limits are inclusive, and only a length below 2
\* or above 64 is rejected for its length
C14_InclusiveLengthLimits ==
    (call.op = "ParseEnv" /\ input # Empty) =>
        /\ Len(input) < 2 => call.err = ErrEnvTooShort
        /\ Len(input) > 64 => call.err = ErrEnvTooLong
        /\ (Len(input) \in {2, 64} /\ \A i \in DOMAIN input : input[i] \in LowerAlnum) =>
              call.err = NoErr /\ call.ret = input

\* identifiers of exactly 2 and of exactly 64 characters are accepted
C14_WitnessAccepted ==
    /\ call.op = "ParseEnv" /\ Len(input) = 2 /\ call.err = NoErr
    /\ input = <<97, 97>>

----------------------------------------------------------------------------
(* Claims about the file names resolveConfig accepts *)

\* a name with its trailing extension, and only that, taken off
StripExt(n) == SubSeq(n, 1, Len(n) - Len(Ext(n)))

\* a regular file with an accepted extension whose name without that
\* extension is the logical name, ignoring case
Qualifies(x, name) ==
    /\ ~x.isDir
    /\ Ext(x.name) \in {extYaml, extYml}
    /\ EqualFold(StripExt(x.name), name)

\* resolveConfig was applied to a directory that could be listed
Listed == call.op = "resolveConfig" /\ fs.stat = "dir" /\ fs.listable

\* C15: resolveConfig returns a path only for a non-directory entry whose
\* name ends in an accepted YAML extension and, with that single trailing
\* extension stripped, equals the logical name ignoring case; directories are
\* skipped, and if no entry qualifies the result is ErrConfigNotFound.  So
\* base.yaml.yaml (stripped: base.yaml) does not match the name "base".
C15_SingleExtensionStripped ==
    Listed =>
        /\ call.err = NoErr =>
              \E x \in fs.entries :
                  Qualifies(x, call.e) /\ call.ret = ConfigDirPath \o <<47>> \o x.name
        /\ (~\E x \in fs.entries : Qualifies(x, call.e)) =>
              call.err = ErrConfigNotFound /\ call.ret = Empty

\* what the code does: every occurrence of the extension is removed from the
\* name before the comparison, so base.yaml.yaml is taken for "base"
C15_EveryOccurrenceStripped ==
    Listed =>
        /\ call.err = NoErr =>
              \E x \in fs.entries :
                  /\ ~x.isDir /\ Ext(x.name) \in {extYaml, extYml}
                  /\ EqualFold(RemoveAll(x.name, Ext(x.name)), call.e)
                  /\ call.ret = ConfigDirPath \o <<47>> \o x.name
        /\ (call.e = sBase /\ fs.entries = {File(sBase \o extYaml \o extYaml, "alt")}) =>
              call.ret = ConfigDirPath \o <<47>> \o sBase \o extYaml \o extYaml

\* base.yaml.yaml alone was returned for the name "base"
C15_WitnessDoubleExt ==
    /\ Listed /\ call.e = sBase /\ call.err = NoErr
    /\ fs.entries = {File(sBase \o extYaml \o extYaml, "alt")}

\* a directory named base.yml was skipped
C15_WitnessDirSkipped ==
    /\ Listed /\ call.e = sBase /\ fs.entries = {Dir(sBase \o extYml)}
    /\ call.err = ErrConfigNotFound

----------------------------------------------------------------------------
(* Claims about the order of the steps of NewEnvContext *)

\* the path APP_DIR stands for, when it can be told
AppResolved ==
    IF AppDirSet = Empty THEN CwdPath
    ELSE IF IsAbs(AppDirSet) THEN AppDirSet
    ELSE CwdPath \o <<47>> \o AppDirSet

\* the AppPath step has to fail: the working directory is needed and not
\* known, or there is no directory at the path
AppFails ==
    \/ (AppDirSet = Empty \/ ~IsAbs(AppDirSet)) /\ world.cwd # "ok"
    \/ OsStat(world, AppResolved) # "dir"

\* the path CONFIG_DIR, or its default, stands for
ConfigResolved ==
    IF ConfigDirSet = Empty THEN TrimSlashes(AppResolved) \o <<47>> \o _defaultConfigDir
    ELSE IF IsAbs(ConfigDirSet) THEN ConfigDirSet
    ELSE CwdPath \o <<47>> \o ConfigDirSet

ConfigFails ==
    \/ (ConfigDirSet # Empty /\ ~IsAbs(ConfigDirSet)) /\ world.cwd # "ok"
    \/ OsStat(world, ConfigResolved) # "dir"

\* the first step that has to fail, 1 (prefix) to 7 (ConfigPath); 8 if none
FirstFailingStep ==
    IF ParseEnvKeyPrefix(prefix).err # NoErr THEN 1
    ELSE IF world.hostname # "ok" THEN 2
    ELSE IF world.machineid # "ok" THEN 3
    ELSE IF world.user # "ok" THEN 4
    ELSE IF EnvironmentSet # Empty /\ ~WellFormedEnvironment(EnvironmentSet) THEN 5
    ELSE IF AppFails THEN 6
    ELSE IF ConfigFails THEN 7
    ELSE 8

\* the step the returned error belongs to
StepOfError ==
    LET e == ectx.err IN
    IF e = NilErr THEN 8
    ELSE IF e.msg \in {ErrPfxTooLong, ErrPfxTooShort, ErrPfxUnderscore, ErrEnvBadChars} THEN 1
    ELSE IF e.msg = ErrHostname THEN 2
    ELSE IF e.msg = ErrMachineID THEN 3
    ELSE IF e.msg \in {ErrUser, ErrUserNil} THEN 4
    ELSE IF e.msg = ErrNotValidEnv THEN 5
    ELSE IF e.key = KeyConfigPath THEN 7
    ELSE IF e.msg = ErrNoAbs /\ IsAbs(AppDirSet) THEN 7
    ELSE 6

\* the step the i-th query to the operating system belongs to
StepOfQuery(i) ==
    LET ev == ectx.trace[i]
        statsBefore == Cardinality({j \in 1..(i - 1) : ectx.trace[j].op = "stat"})
    IN  IF ev.op = "hostname" THEN 2
        ELSE IF ev.op = "machineid" THEN 3
        ELSE IF ev.op = "user" THEN 4
        ELSE IF ev.op = "getenv"
             THEN IF ev.arg = Key(KeyEnvironment, ParseEnvKeyPrefix(prefix).ret) THEN 5 ELSE 1
        ELSE IF statsBefore = 0 THEN 6
        ELSE 7

\* C16: NewEnvContext checks in the order prefix, hostname, machine
\* identifier, user, environment identifier, AppPath, ConfigPath and returns
\* the error of the first step that fails, performing no later step: with an
\* invalid prefix no environment variable is read and nothing is looked up
\* under "CFX"; with an invalid ENVIRONMENT and a bad APP_DIR the environment
\* error is the one returned.
C16_FirstFailureWins ==
    ectx.called =>
        /\ StepOfError = FirstFailingStep
        /\ \A i \in 1..Len(ectx.trace) :
              /\ StepOfQuery(i) <= FirstFailingStep
              /\ \A j \in 1..(i - 1) : StepOfQuery(j) <= StepOfQuery(i)
        /\ FirstFailingStep = 1 =>
              /\ ectx.trace = <<>>
              /\ ectx.ctx.Environment = Empty /\ ectx.ctx.AppPath = Empty
              /\ ectx.ctx.Deployment.Region = Empty
        /\ \A i \in 1..Len(ectx.trace) :
              ectx.trace[i].op = "getenv" =>
                  HasPrefixAt(ectx.trace[i].arg,
                              ParseEnvKeyPrefix(prefix).ret \o <<95>>)

\* ENVIRONMENT is invalid and APP_DIR names a missing directory: the error is
\* the one about the environment, and nothing was asked about any path
C16_Witness ==
    /\ ectx.called /\ EnvironmentSet = <<80, 114>>
    /\ AppDirSet = sRel /\ world.appKind = "notexist"
    /\ ectx.err.msg = ErrNotValidEnv
    /\ \A i \in 1..Len(ectx.trace) : ectx.trace[i].op \notin {"stat", "getwd"}

\* the prefix is invalid while CFX_ENVIRONMENT is set: nothing was read
C16_WitnessPrefix ==
    /\ ectx.called /\ prefix = <<95, 88>>
    /\ Getenv(osenv, Join(<<DefaultEnvKeyPrefix, KeyEnvironment>>, <<95>>)) = sQa
    /\ ectx.err.msg = ErrPfxUnderscore /\ ectx.trace = <<>>

\* neither the host name nor the user can be told: the host name error wins
C16_WitnessHostBeforeUser ==
    /\ ectx.called /\ world.hostname = "err" /\ world.user = "err"
    /\ ectx.err.msg = ErrHostname

====
